---- MODULE Spec2Model ----
(***************************************************************************)
(* pymongo_express.Client: a convenience layer over a MongoDB driver.      *)
(* The client keeps no state of its own; the state is the server's: the    *)
(* collections of every database and their documents.  Every method of     *)
(* Client is an operator from the server state and the arguments to the    *)
(* outcome (return value or exception, and the server state afterwards),   *)
(* and an action that applies it.                                          *)
(***************************************************************************)
EXTENDS Integers, Sequences, FiniteSets, TLC

VARIABLES server, pre, last, heap, built

vars == <<server, pre, last, heap, built>>

-----------------------------------------------------------------------------
(* Bounds of the model *)

\* ObjectId values are 1..NumOids
NumOids == 2
\* documents on the whole server
MaxDocs == 2
\* length of the ids list given to query_get_entries_by_ids
MaxIds == 2
\* query dictionaries the caller holds
MaxObjs == 2

\* list_database_names() answers in this order
DbOrder == <<"config", "db1", "db2">>
DbNames == {DbOrder[i] : i \in 1..Len(DbOrder)}
CollNames == {"c1", "c2"}
\* the collections the model lets exist: every database can hold c1; c2 is a
\* name callers ask for that no database holds
Namespaces == {<<"config", "c1">>, <<"db1", "c1">>, <<"db2", "c1">>}
\* databases the server lists even without a collection of CollNames
\* (they hold the server's own system collections)
SystemDbs == {"config"}

Keys == {"k1", "k2"}
Vals == {"x", "y"}
\* a field that the document does not have
Absent == "absent"

-----------------------------------------------------------------------------
(* Values *)

\* Python None, for an omitted database name or query
None == "None"

Oids == 1..NumOids
\* a bson.ObjectId
Oid(n) == [t |-> "oid", n |-> n]
\* a str: Str(n) for n in Oids is the 24-digit hex encoding of Oid(n),
\* Str(0) is a string that is no encoding of an ObjectId
Str(n) == [t |-> "str", n |-> n]
\* no identifier: a dict without "_id", or None where an identifier is returned
NoId == [t |-> "none", n |-> 0]
\* an identifier that is neither a str nor an ObjectId (an int)
IntId == [t |-> "int", n |-> 0]

OidIds == {Oid(n) : n \in Oids}
StrIds == {Str(n) : n \in Oids \cup {0}}
\* identifiers a caller passes
ArgIds == OidIds \cup StrIds
\* identifiers stored documents carry
DocIds == OidIds \cup {Str(1)}

\* the fields of a document other than _id
FieldMaps == [Keys -> Vals \cup {Absent}]
NoFields == [k \in Keys |-> Absent]
\* the dictionaries the callers pass as data / key_values
DataMaps == {NoFields,
             [NoFields EXCEPT !["k1"] = "x"],
             [NoFields EXCEPT !["k1"] = "y", !["k2"] = "x"]}

Doc(i, g) == [_id |-> i, f |-> g]
\* a Collection handle and a Database handle of the driver
Coll(d, c) == [db |-> d, name |-> c]

\* return values, tagged by their Python type (k) before the value (v)
RNone == [k |-> "none", v |-> 0]
RBool(b) == [k |-> "bool", v |-> b]
RDoc(doc) == [k |-> "doc", v |-> doc]
RDocs(docs) == [k |-> "docs", v |-> docs]
RColl(d, c) == [k |-> "coll", v |-> Coll(d, c)]
RDb(d) == [k |-> "db", v |-> d]
RPair(i, d, c) == [k |-> "pair", v |-> [id |-> i, coll |-> Coll(d, c)]]
RQuery(q) == [k |-> "query", v |-> q]

\* the outcome of a call: the value returned or the exception raised,
\* and the server state the call leaves
Return(r, s) == [ret |-> r, exc |-> "", server |-> s]
Raise(e, s) == [ret |-> RNone, exc |-> e, server |-> s]

\* bson.ObjectId(s) of a str
ValidOidString(i) == i.t = "str" /\ i.n \in Oids
ObjectId(i) == Oid(i.n)

-----------------------------------------------------------------------------
(* The driver: the server state s maps every existing collection <<d, c>>  *)
(* to the set of its documents                                             *)

CollectionsOf(s, d) == {c \in CollNames : <<d, c>> \in DOMAIN s}

\* MongoClient.list_database_names(), a list in the server's order
list_database_names(s) ==
    SelectSeq(DbOrder, LAMBDA d : d \in SystemDbs \/ CollectionsOf(s, d) # {})

\* Database.list_collection_names()
list_collection_names(s, d) == CollectionsOf(s, d)

\* the documents of collection d.c; a collection that does not exist reads as empty
Documents(s, d, c) == IF <<d, c>> \in DOMAIN s THEN s[<<d, c>>] ELSE {}

\* the server state with collection d.c holding docs (created if it did not exist)
WithDocuments(s, d, c, docs) ==
    [ns \in DOMAIN s \cup {<<d, c>>} |-> IF ns = <<d, c>> THEN docs ELSE s[ns]]

\* Collection.find({"_id": i}): BSON equality distinguishes a str from an ObjectId
FindById(s, d, c, i) == {doc \in Documents(s, d, c) : doc._id = i}

\* Collection.find_one({"_id": i})
find_one(s, d, c, i) ==
    IF FindById(s, d, c, i) = {} THEN RNone
    ELSE RDoc(CHOOSE doc \in FindById(s, d, c, i) : TRUE)

\* every identifier in use on the server, as the ObjectId number it is or encodes
UsedOids(s) ==
    {doc._id.n : doc \in UNION {s[ns] : ns \in DOMAIN s}}

\* the ObjectIds the driver can generate for a document without _id
FreshOids(s) == {Oid(n) : n \in Oids \ UsedOids(s)}

\* Collection.drop()
drop(s, d, c) == [ns \in DOMAIN s \ {<<d, c>>} |-> s[ns]]

\* Collection.delete_one({"_id": i}): the state afterwards
delete_one(s, d, c, i) ==
    IF FindById(s, d, c, i) = {} THEN s
    ELSE WithDocuments(s, d, c,
            Documents(s, d, c) \ {CHOOSE doc \in FindById(s, d, c, i) : TRUE})

\* a replacement of the document's fields by f, in place of $set
SetFields_Replace(g, f) == f

\* {"$set": f} applied to the fields g of a document
SetFields(g, f) == [k \in Keys |-> IF f[k] # Absent THEN f[k] ELSE g[k]]

\* Collection.update_one({"_id": i}, {"$set": f}, upsert): the state afterwards.
\* Without a match an upsert inserts {"_id": i} with the fields set; without
\* upsert nothing is written and no collection is created.
update_one(s, d, c, i, f, upsert) ==
    IF FindById(s, d, c, i) # {}
    THEN LET old == CHOOSE doc \in FindById(s, d, c, i) : TRUE
         IN  WithDocuments(s, d, c,
                (Documents(s, d, c) \ {old}) \cup {Doc(i, SetFields(old.f, f))})
    ELSE IF upsert
         THEN WithDocuments(s, d, c, Documents(s, d, c) \cup {Doc(i, f)})
         ELSE s

\* UpdateResult.upserted_id: the _id of the inserted document, None on a match
upserted_id(s, d, c, i, upsert) ==
    IF FindById(s, d, c, i) = {} /\ upsert THEN i ELSE NoId

-----------------------------------------------------------------------------
(* Client: lookups *)

InSeq(x, seq) == \E n \in 1..Len(seq) : seq[n] = x

database_exists(s, databaseName) == InSeq(databaseName, list_database_names(s))

get_database_by_name(s, databaseName) ==
    IF database_exists(s, databaseName) THEN RDb(databaseName) ELSE RNone

collection_exists(s, collectionName, databaseName) ==
    IF databaseName = None
    THEN \E n \in 1..Len(list_database_names(s)) :
            collectionName \in list_collection_names(s, list_database_names(s)[n])
    ELSE IF get_database_by_name(s, databaseName).k # "none"
         THEN collectionName \in list_collection_names(s, databaseName)
         ELSE FALSE

\* the exclusion as the comment in get_collection_by_name words it
ExcludedDbs_AsCommented == {"admin", "local"}

\* the databases get_collection_by_name leaves out of a search of all databases
ExcludedDbs == {"config", "local"}

\* the list dbs of get_collection_by_name
SearchedDbs(s, databaseName) ==
    IF databaseName # None
    THEN IF get_database_by_name(s, databaseName).k # "none"
         THEN <<databaseName>> ELSE <<>>
    ELSE SelectSeq(list_database_names(s), LAMBDA d : d \notin ExcludedDbs)

\* the first database of dbs that lists the collection
FirstDbWith(s, dbs, collectionName) ==
    LET hits == {n \in 1..Len(dbs) : collectionName \in list_collection_names(s, dbs[n])}
    IN  IF hits = {} THEN None
        ELSE dbs[CHOOSE n \in hits : \A m \in hits : n <= m]

get_collection_by_name(s, collectionName, databaseName) ==
    LET d == FirstDbWith(s, SearchedDbs(s, databaseName), collectionName)
    IN  IF d = None THEN RNone ELSE RColl(d, collectionName)

\* get_entry_by_id that hands a str to find_one as it is, as delete_entry_by_id does
get_entry_by_id_Unconverted(s, id, collectionName, databaseName) ==
    LET collection == get_collection_by_name(s, collectionName, databaseName)
    IN  IF collection.k = "none" THEN Return(RNone, s)
        ELSE Return(find_one(s, collection.v.db, collection.v.name, id), s)

\* get_entry_by_id without the try / except around bson.ObjectId(_id)
get_entry_by_id_Unguarded(s, id, collectionName, databaseName) ==
    LET collection == get_collection_by_name(s, collectionName, databaseName)
    IN  IF collection.k = "none" THEN Return(RNone, s)
        ELSE IF id.t = "str" /\ ~ValidOidString(id) THEN Raise("InvalidId", s)
        ELSE Return(find_one(s, collection.v.db, collection.v.name,
                             IF id.t = "str" THEN ObjectId(id) ELSE id), s)

get_entry_by_id(s, id, collectionName, databaseName) ==
    LET collection == get_collection_by_name(s, collectionName, databaseName)
    IN  IF collection.k = "none" THEN Return(RNone, s)
        ELSE IF id.t = "str" /\ ~ValidOidString(id) THEN Return(RNone, s)
        ELSE Return(find_one(s, collection.v.db, collection.v.name,
                             IF id.t = "str" THEN ObjectId(id) ELSE id), s)

\* the number of queries get_entry_by_id sends to the collection: the one
\* find_one, reached only past both early returns
get_entry_by_id_finds(s, id, collectionName, databaseName) ==
    LET collection == get_collection_by_name(s, collectionName, databaseName)
    IN  IF collection.k = "none" THEN 0
        ELSE IF id.t = "str" /\ ~ValidOidString(id) THEN 0
        ELSE 1

\* the methods class Client defines; any other attribute of self raises AttributeError
ClientMethods ==
    {"database_exists", "get_database_by_name", "collection_exists",
     "get_collection_by_name", "get_entry_by_id", "match_entry", "create_entry",
     "delete_entry_by_id", "delete_collection", "update_entry",
     "create_or_update_entry", "get_all_ids_in_collection", "get_most_recent_entry",
     "query_get_entries_by_ids", "query_get_entries_where_key_exists",
     "query_get_entries_where_key_not_exists", "query_get_entries_with_value",
     "query_get_entries_with_value_range"}

\* the documents a find with the equality filter key_values returns
Matching(docs, key_values) ==
    {doc \in docs : \A k \in Keys : key_values[k] # Absent => doc.f[k] = key_values[k]}

match_entry(s, database_name, collection_name, key_values) ==
    LET collection == get_collection_by_name(s, collection_name, database_name)
    IN  IF collection.k = "none" THEN Return(RNone, s)
        ELSE IF key_values # NoFields /\ "_get_entries_with_value" \notin ClientMethods
        THEN Raise("AttributeError", s)
        ELSE Return(RDocs(Matching(Documents(s, collection.v.db, collection.v.name),
                                   key_values)), s)

\* BSON sort order of identifiers: every string sorts before every ObjectId
IdLess(a, b) ==
    \/ a.t = "str" /\ b.t = "oid"
    \/ a.t = b.t /\ a.n < b.n

\* get_most_recent_entry that takes the document out of the collection
\* (find_one_and_delete in place of find_one)
get_most_recent_entry_Pop(s, collectionName, databaseName) ==
    LET collection == get_collection_by_name(s, collectionName, databaseName)
    IN  IF collection.k = "none" THEN Return(RNone, s)
        ELSE LET docs == Documents(s, collection.v.db, collection.v.name)
             IN  IF docs = {} THEN Return(RNone, s)
                 ELSE LET top == CHOOSE doc \in docs :
                                    \A o \in docs : o = doc \/ IdLess(o._id, doc._id)
                      IN  Return(RDoc(top),
                                 WithDocuments(s, collection.v.db, collection.v.name, docs \ {top}))

\* get_most_recent_entry with the sort ascending
get_most_recent_entry_Ascending(s, collectionName, databaseName) ==
    LET collection == get_collection_by_name(s, collectionName, databaseName)
    IN  IF collection.k = "none" THEN Return(RNone, s)
        ELSE LET docs == Documents(s, collection.v.db, collection.v.name)
             IN  IF docs = {} THEN Return(RNone, s)
                 ELSE Return(RDoc(CHOOSE doc \in docs :
                                \A o \in docs : o = doc \/ IdLess(doc._id, o._id)), s)

get_most_recent_entry(s, collectionName, databaseName) ==
    LET collection == get_collection_by_name(s, collectionName, databaseName)
    IN  IF collection.k = "none" THEN Return(RNone, s)
        ELSE LET docs == Documents(s, collection.v.db, collection.v.name)
             IN  IF docs = {} THEN Return(RNone, s)
                 ELSE Return(RDoc(CHOOSE doc \in docs :
                                \A o \in docs : o = doc \/ IdLess(o._id, doc._id)), s)

\* collection.distinct("_id") of a Collection handle
get_all_ids_in_collection(s, collection) ==
    Return([k |-> "ids", v |-> {doc._id : doc \in Documents(s, collection.db, collection.name)}], s)

-----------------------------------------------------------------------------
(* Client: writes.  data is [id, f]: the "_id" of the dict (NoId without    *)
(* one) and its other fields.                                              *)

Data(i, f) == [id |-> i, f |-> f]

\* Collection.insert_one(data): gen is the ObjectId the driver generates for
\* a dict without "_id"; a duplicate "_id" raises and writes nothing
insert_one(s, d, c, data, gen) ==
    LET i == IF data.id = NoId THEN gen ELSE data.id
    IN  IF FindById(s, d, c, i) # {}
        THEN Raise("DuplicateKeyError", s)
        ELSE Return(i, WithDocuments(s, d, c, Documents(s, d, c) \cup {Doc(i, data.f)}))

\* a create_entry that looks the collection up as the other methods do,
\* and returns None when it is not found
create_entry_ExistingOnly(s, data, collection_name, database_name, gen) ==
    LET result == insert_one(s, database_name, collection_name, data, gen)
    IN  IF get_collection_by_name(s, collection_name, database_name).k = "none"
        THEN Return(RNone, s)
        ELSE IF result.exc # "" THEN result
        ELSE Return(RPair(result.ret, database_name, collection_name), result.server)

create_entry(s, data, collection_name, database_name, gen) ==
    LET result == insert_one(s, database_name, collection_name, data, gen)
    IN  IF result.exc # "" THEN result
        ELSE Return(RPair(result.ret, database_name, collection_name), result.server)

delete_entry_by_id(s, id, collection_name, database_name) ==
    LET collection == get_collection_by_name(s, collection_name, database_name)
    IN  IF collection.k = "none" THEN Return(RBool(FALSE), s)
        ELSE IF FindById(s, collection.v.db, collection.v.name, id) # {}
        THEN Return(RBool(TRUE), delete_one(s, collection.v.db, collection.v.name, id))
        ELSE Return(RBool(FALSE), s)

\* bool(collection) of a pymongo Collection raises NotImplementedError
delete_collection(s, collection_name, database_name) ==
    LET collection == get_collection_by_name(s, collection_name, database_name)
    IN  IF collection.k = "none" THEN Return(RBool(FALSE), s)
        ELSE LET dropped == drop(s, collection.v.db, collection.v.name)
             IN  IF get_collection_by_name(dropped, collection_name, database_name).k # "none"
                 THEN Raise("NotImplementedError", dropped)
                 ELSE Return(RBool(TRUE), dropped)

\* update_entry with upsert=True, as create_or_update_entry has it
update_entry_Upsert(s, id, f, collection_name, database_name) ==
    Return(RNone, update_one(s, database_name, collection_name, id, f, TRUE))

update_entry(s, id, f, collection_name, database_name) ==
    Return(RNone, update_one(s, database_name, collection_name, id, f, FALSE))

create_or_update_entry(s, data, collection_name, database_name, gen) ==
    IF data.id = NoId
    THEN create_entry(s, data, collection_name, database_name, gen)
    ELSE Return(RPair(upserted_id(s, database_name, collection_name, data.id, TRUE),
                      database_name, collection_name),
                update_one(s, database_name, collection_name, data.id, data.f, TRUE))

-----------------------------------------------------------------------------
(* Client: query builders.  A query dictionary maps every key to its        *)
(* condition; NoCond for a key the dictionary does not have.                *)

QKeys == Keys \cup {"_id"}
\* A condition is absent (kind "none"), a plain value that the key must equal
\* (kind "value", the value in val), or a dictionary of operators (kind "ops")
\* with $exists, $gte, $lte, $in each left out (<< >>) or holding its operand.
NoCond == [kind |-> "none", val |-> << >>, exists |-> << >>,
           gte |-> << >>, lte |-> << >>, in |-> << >>]
\* the dictionary {} as a condition
OpsCond == [NoCond EXCEPT !.kind = "ops"]
\* the condition {"$in": object_ids}
InCond(object_ids) == [OpsCond EXCEPT !.in = <<object_ids>>]
\* the condition of query[key] = value
ValueCond(value) == [NoCond EXCEPT !.kind = "value", !.val = <<value>>]
\* the condition {"$gte": value[0], "$lte": value[1]}
RangeCond(value) == [OpsCond EXCEPT !.gte = <<value[1]>>, !.lte = <<value[2]>>]
EmptyQuery == [k \in QKeys |-> NoCond]
\* the query argument left out (query = None)
NoQuery == [k |-> "none", v |-> EmptyQuery]

\* the elements of ids that the loop of query_get_entries_by_ids rejects
Rejected(ids) ==
    {n \in 1..Len(ids) : \/ ids[n].t = "str" /\ ~ValidOidString(ids[n])
                         \/ ids[n].t \notin {"str", "oid"}}

\* the list object_ids when every element is accepted
ObjectIds(ids) ==
    [n \in 1..Len(ids) |-> IF ids[n].t = "str" THEN ObjectId(ids[n]) ELSE ids[n]]

\* q is NoQuery when the caller passes no query
query_get_entries_by_ids(s, ids, q) ==
    IF Rejected(ids) # {}
    THEN LET n == CHOOSE n \in Rejected(ids) : \A m \in Rejected(ids) : n <= m
         IN  IF ids[n].t = "str" THEN Raise("InvalidId", s) ELSE Raise("TypeError", s)
    ELSE IF q.k = "none" THEN Raise("TypeError", s)
    ELSE Return(RQuery([q.v EXCEPT !["_id"] = InCond(ObjectIds(ids))]), s)

-----------------------------------------------------------------------------
(* Client: query builders on the caller's dictionaries.  heap h is the list *)
(* of the dictionaries that exist; a dictionary is referred to by its       *)
(* position in h, and the reference 0 is None.  The outcome of a builder is *)
(* the heap it leaves and the reference it returns or the exception.        *)

BOut(h, r, e) == [heap |-> h, ref |-> r, exc |-> e]

\* a builder that starts from {} whatever it is given
Given_Fresh(h, query) == EmptyQuery

\* the dictionary the builder works on: "if query is None: query = {}"
Given(h, query) == IF query = 0 THEN EmptyQuery ELSE h[query]

\* the builder returns its dictionary with contents q: a new dictionary when
\* the caller gave none, the caller's dictionary, updated in place, otherwise
Updated(h, query, q) ==
    IF query = 0 THEN BOut(Append(h, q), Len(h) + 1, "")
    ELSE BOut([h EXCEPT ![query] = q], query, "")

query_get_entries_with_value(h, key, value, query) ==
    Updated(h, query, [Given(h, query) EXCEPT ![key] = ValueCond(value)])

\* a range builder that adds its bounds to the operators the key holds
query_get_entries_with_value_range_Merge(h, key, value, query) ==
    LET q == Given(h, query)
        cond == IF q[key].kind = "ops" THEN q[key] ELSE OpsCond
    IN  Updated(h, query, [q EXCEPT ![key] =
            [cond EXCEPT !.gte = <<value[1]>>, !.lte = <<value[2]>>]])

query_get_entries_with_value_range(h, key, value, query) ==
    Updated(h, query, [Given(h, query) EXCEPT ![key] = RangeCond(value)])

\* query.setdefault(key, {}); query[key]["$exists"] = b: the item assignment
\* raises TypeError when query[key] is a plain value (a str)
SetExists(h, key, b, query) ==
    LET q == Given(h, query)
        cond == IF q[key].kind = "none" THEN OpsCond ELSE q[key]
    IN  IF cond.kind = "value" THEN BOut(h, 0, "TypeError")
        ELSE Updated(h, query, [q EXCEPT ![key] = [cond EXCEPT !.exists = <<b>>]])

query_get_entries_where_key_exists(h, key, query) == SetExists(h, key, TRUE, query)

query_get_entries_where_key_not_exists(h, key, query) == SetExists(h, key, FALSE, query)

\* query_get_entries_by_ids on the caller's dictionary: the "_id" entry is
\* written by the last statement, in place
query_get_entries_by_ids_InPlace(h, ids, query) ==
    LET out == query_get_entries_by_ids(<< >>, ids,
                   IF query = 0 THEN NoQuery ELSE RQuery(h[query]))
    IN  IF out.exc # "" THEN BOut(h, 0, out.exc)
        ELSE Updated(h, query, out.ret.v)

-----------------------------------------------------------------------------
(* The state machine.  server is the server state, pre the server state     *)
(* before the last call, last the last call with its outcome.               *)

AllDocs(s) == UNION {s[ns] : ns \in DOMAIN s}

\* the part of the state space the model explores
WithinBounds(s) ==
    /\ DOMAIN s \subseteq Namespaces
    /\ \A doc \in AllDocs(s) : doc._id \in DocIds
    /\ Cardinality(AllDocs(s)) <= MaxDocs

Call(op, id, f, c, d) ==
    [op |-> op, id |-> id, f |-> f, c |-> c, d |-> d, ids |-> << >>, query |-> NoQuery]

\* a call of a query builder
QueryCall(op, ids, q) ==
    [op |-> op, id |-> NoId, f |-> NoFields, c |-> None, d |-> None, ids |-> ids, query |-> q]

\* no call: the caller holds no result
NoCall == Call("", NoId, NoFields, None, None)

\* the caller is single-threaded and synchronous: it makes the call with
\* outcome out when it holds no result of an earlier call
Do(call, out) ==
    /\ last.call.op = ""
    /\ WithinBounds(out.server)
    /\ server' = out.server
    /\ pre' = server
    /\ last' = [ret |-> out.ret, exc |-> out.exc, call |-> call]
    /\ UNCHANGED <<heap, built>>

\* the last call of a query builder: its arguments (val and range are << >>
\* when the builder takes none), its outcome and the heap before it
Built(op, key, val, range, ids, query, out, before) ==
    [op |-> op, key |-> key, val |-> val, range |-> range, ids |-> ids,
     query |-> query, ref |-> out.ref, exc |-> out.exc, before |-> before]

NoBuilt == Built("", "", << >>, << >>, << >>, 0, BOut(<< >>, 0, ""), << >>)

Init ==
    /\ server = << >>
    /\ pre = << >>
    /\ last = [ret |-> RNone, exc |-> "", call |-> NoCall]
    /\ heap = << >>
    /\ built = NoBuilt

DbArgs == DbNames \cup {None}

DatabaseExists ==
    \E d \in DbNames :
        Do(Call("database_exists", NoId, NoFields, None, d),
           Return(RBool(database_exists(server, d)), server))

GetDatabaseByName ==
    \E d \in DbNames :
        Do(Call("get_database_by_name", NoId, NoFields, None, d),
           Return(get_database_by_name(server, d), server))

CollectionExists ==
    \E c \in CollNames, d \in DbArgs :
        Do(Call("collection_exists", NoId, NoFields, c, d),
           Return(RBool(collection_exists(server, c, d)), server))

GetCollectionByName ==
    \E c \in CollNames, d \in DbArgs :
        Do(Call("get_collection_by_name", NoId, NoFields, c, d),
           Return(get_collection_by_name(server, c, d), server))

GetEntryById ==
    \E id \in ArgIds, c \in CollNames, d \in DbArgs :
        Do(Call("get_entry_by_id", id, NoFields, c, d),
           get_entry_by_id(server, id, c, d))

MatchEntry ==
    \E key_values \in DataMaps, c \in CollNames, d \in DbArgs :
        Do(Call("match_entry", NoId, key_values, c, d),
           match_entry(server, d, c, key_values))

GetMostRecentEntry ==
    \E c \in CollNames, d \in DbArgs :
        Do(Call("get_most_recent_entry", NoId, NoFields, c, d),
           get_most_recent_entry(server, c, d))

GetAllIdsInCollection ==
    \E ns \in Namespaces :
        Do(Call("get_all_ids_in_collection", NoId, NoFields, ns[2], ns[1]),
           get_all_ids_in_collection(server, Coll(ns[1], ns[2])))

\* the identifier the driver generates when data has none
Generated(s, data) == IF data.id = NoId THEN FreshOids(s) ELSE {NoId}

CreateEntry ==
    \E id \in DocIds \cup {NoId}, f \in DataMaps, ns \in Namespaces :
        \E gen \in Generated(server, Data(id, f)) :
            Do(Call("create_entry", id, f, ns[2], ns[1]),
               create_entry(server, Data(id, f), ns[2], ns[1], gen))

DeleteEntryById ==
    \E id \in ArgIds, c \in CollNames, d \in DbArgs :
        Do(Call("delete_entry_by_id", id, NoFields, c, d),
           delete_entry_by_id(server, id, c, d))

DeleteCollection ==
    \E c \in CollNames, d \in DbArgs :
        Do(Call("delete_collection", NoId, NoFields, c, d),
           delete_collection(server, c, d))

\* data is not empty: what the server does with an empty $set depends on its version
UpdateEntry ==
    \E id \in ArgIds, f \in DataMaps \ {NoFields}, ns \in Namespaces :
        Do(Call("update_entry", id, f, ns[2], ns[1]),
           update_entry(server, id, f, ns[2], ns[1]))

CreateOrUpdateEntry ==
    \E id \in DocIds \cup {NoId}, f \in DataMaps, ns \in Namespaces :
        \E gen \in Generated(server, Data(id, f)) :
            Do(Call("create_or_update_entry", id, f, ns[2], ns[1]),
               create_or_update_entry(server, Data(id, f), ns[2], ns[1], gen))

\* the identifier lists and queries the callers pass to the builders
BuilderIds == {Oid(1), Str(2), Str(0), IntId}
IdLists == UNION {[1..n -> BuilderIds] : n \in 0..MaxIds}
QueryArgs == {NoQuery, RQuery(EmptyQuery)}

QueryGetEntriesByIds ==
    \E ids \in IdLists, q \in QueryArgs :
        Do(QueryCall("query_get_entries_by_ids", ids, q),
           query_get_entries_by_ids(server, ids, q))

\* the caller is done with the result of the last call
Continue ==
    /\ last.call.op # ""
    /\ last' = [ret |-> RNone, exc |-> "", call |-> NoCall]
    /\ pre' = server
    /\ UNCHANGED <<server, heap, built>>

Next ==
    \/ Continue
    \/ DatabaseExists
    \/ GetDatabaseByName
    \/ CollectionExists
    \/ GetCollectionByName
    \/ GetEntryById
    \/ MatchEntry
    \/ GetMostRecentEntry
    \/ GetAllIdsInCollection
    \/ CreateEntry
    \/ DeleteEntryById
    \/ DeleteCollection
    \/ UpdateEntry
    \/ CreateOrUpdateEntry
    \/ QueryGetEntriesByIds

Spec == Init /\ [][Next]_vars

-----------------------------------------------------------------------------
(* The query builders as a state machine of their own: the caller builds    *)
(* queries, passing None or a dictionary it holds.                          *)

\* the arguments the caller passes
ValueArgs == {<<"k1", "x">>, <<"k1", "y">>, <<"k2", "x">>}
RangeArgs == {<<"k1", <<1, 2>>>>}
ExistsKeys == {"k1"}
IdsArgs == {<<Oid(1)>>, <<Str(2), Oid(1)>>, <<Str(0), IntId>>, <<Oid(1), IntId>>}

\* the builder call with outcome out
Build(op, key, val, range, ids, query, out) ==
    /\ Len(out.heap) <= MaxObjs
    /\ heap' = out.heap
    /\ built' = Built(op, key, val, range, ids, query, out, heap)
    /\ UNCHANGED <<server, pre, last>>

QueryGetEntriesWithValue ==
    \E a \in ValueArgs, query \in 0..Len(heap) :
        Build("query_get_entries_with_value", a[1], <<a[2]>>, << >>, << >>, query,
              query_get_entries_with_value(heap, a[1], a[2], query))

QueryGetEntriesWithValueRange ==
    \E a \in RangeArgs, query \in 0..Len(heap) :
        Build("query_get_entries_with_value_range", a[1], << >>, a[2], << >>, query,
              query_get_entries_with_value_range(heap, a[1], a[2], query))

QueryGetEntriesWhereKeyExists ==
    \E key \in ExistsKeys, query \in 0..Len(heap) :
        Build("query_get_entries_where_key_exists", key, << >>, << >>, << >>, query,
              query_get_entries_where_key_exists(heap, key, query))

QueryGetEntriesWhereKeyNotExists ==
    \E key \in ExistsKeys, query \in 0..Len(heap) :
        Build("query_get_entries_where_key_not_exists", key, << >>, << >>, << >>, query,
              query_get_entries_where_key_not_exists(heap, key, query))

QueryGetEntriesByIdsInPlace ==
    \E ids \in IdsArgs, query \in 0..Len(heap) :
        Build("query_get_entries_by_ids", "_id", << >>, << >>, ids, query,
              query_get_entries_by_ids_InPlace(heap, ids, query))

BuilderNext ==
    \/ QueryGetEntriesWithValue
    \/ QueryGetEntriesWithValueRange
    \/ QueryGetEntriesWhereKeyExists
    \/ QueryGetEntriesWhereKeyNotExists
    \/ QueryGetEntriesByIdsInPlace

BuilderSpec == Init /\ [][BuilderNext]_vars

-----------------------------------------------------------------------------
(* Properties.  Each is about the last call: its arguments last.call, its   *)
(* outcome last.ret / last.exc, the server before (pre) and after (server). *)

Called(op) == last.call.op = op
Returned == last.exc = ""
ReturnedBool(b) == Returned /\ last.ret.k = "bool" /\ last.ret.v = b
ReturnedNone == Returned /\ last.ret.k = "none"

\* the documents of the collection a write call names, before and after
Before == Documents(pre, last.call.d, last.call.c)
After == Documents(server, last.call.d, last.call.c)
\* every collection other than ns exists as before with the documents it had
OthersUnchanged(ns) ==
    /\ DOMAIN server \ {ns} = DOMAIN pre \ {ns}
    /\ \A o \in DOMAIN pre \ {ns} : server[o] = pre[o]

\* C1 (as claimed): after create_entry(data, c, d) with data without _id
\* returns id, get_entry_by_id(id, c) without a database name returns the
\* inserted document: the fields of data plus _id = id.
C1_InsertThenRead ==
    (Called("create_entry") /\ last.call.id = NoId /\ Returned)
        => LET entry == get_entry_by_id(server, last.ret.v.id, last.call.c, None).ret
           IN  entry.k = "doc" /\ entry.v = Doc(last.ret.v.id, last.call.f)

\* the collection delete_entry_by_id / get_entry_by_id look the document up in
Target == get_collection_by_name(pre, last.call.c, last.call.d)
TargetNs == <<Target.v.db, Target.v.name>>

\* C2 (as claimed): delete_entry_by_id(id, c, d) returns True iff exactly one
\* document with that _id was removed, returns False removing nothing when the
\* collection or the document is not found, and after True
\* get_entry_by_id(id, c, d) returns None and every other document is unchanged.
C2_DeleteThenCheck ==
    Called("delete_entry_by_id") =>
        /\ Returned /\ last.ret.k = "bool"
        /\ last.ret.v <=>
              /\ Target.k = "coll"
              /\ \E doc \in pre[TargetNs] :
                    /\ doc._id = last.call.id
                    /\ server = WithDocuments(pre, TargetNs[1], TargetNs[2],
                                              pre[TargetNs] \ {doc})
        /\ ~last.ret.v => server = pre
        /\ (Target.k = "none" \/ FindById(pre, Target.v.db, Target.v.name, last.call.id) = {})
              => ~last.ret.v
        /\ last.ret.v =>
              get_entry_by_id(server, last.call.id, last.call.c, last.call.d).ret.k = "none"

\* C3 (as claimed): delete_collection(c, d) returns True whenever it drops a
\* collection, returns False only when none was dropped, and after True
\* collection_exists(c, d) is False, also with d omitted and several
\* databases holding a collection named c.
C3_DeleteCollection ==
    Called("delete_collection") =>
        /\ DOMAIN server # DOMAIN pre => ReturnedBool(TRUE)
        /\ ReturnedBool(FALSE) => server = pre
        /\ ReturnedBool(TRUE) => ~collection_exists(server, last.call.c, last.call.d)

\* the first database, in listing order and outside skip, that holds collection c
FirstHolding(s, c, skip) ==
    LET hits == {n \in 1..Len(DbOrder) : DbOrder[n] \notin skip /\ <<DbOrder[n], c>> \in DOMAIN s}
    IN  IF hits = {} THEN None ELSE DbOrder[CHOOSE n \in hits : \A m \in hits : n <= m]

\* the calls that look up, update or delete, and those of them that answer a bool
LookupOps ==
    {"database_exists", "get_database_by_name", "collection_exists",
     "get_collection_by_name", "get_entry_by_id", "match_entry",
     "get_most_recent_entry", "delete_entry_by_id", "delete_collection", "update_entry"}
BoolOps == {"database_exists", "collection_exists", "delete_entry_by_id", "delete_collection"}

\* the server lists no database d
DatabaseMissing(d) == d \notin SystemDbs /\ \A c \in CollNames : <<d, c>> \notin DOMAIN pre

\* the target of the last call is missing or invalid: the database is not
\* found, the collection is not found, the document is not found, or the
\* identifier string is not convertible
TargetMissing ==
    LET op == last.call.op
        c == last.call.c
        d == last.call.d
        id == last.call.id
    IN  \/ op \in {"database_exists", "get_database_by_name"} /\ DatabaseMissing(d)
        \/ op = "collection_exists" /\
              IF d = None THEN FirstHolding(pre, c, {}) = None ELSE <<d, c>> \notin DOMAIN pre
        \/ op = "update_entry" /\
              (<<d, c>> \notin DOMAIN pre \/ \A doc \in pre[<<d, c>>] : doc._id # id)
        \/ op \in {"get_collection_by_name", "get_entry_by_id", "match_entry",
                   "get_most_recent_entry", "delete_entry_by_id", "delete_collection"} /\
              \/ Target.k = "none"
              \/ op = "get_entry_by_id" /\
                    \/ id.t = "str" /\ id.n \notin Oids
                    \/ \A doc \in pre[TargetNs] : doc._id # Oid(id.n)
              \/ op = "delete_entry_by_id" /\ \A doc \in pre[TargetNs] : doc._id # id
              \/ op = "get_most_recent_entry" /\ pre[TargetNs] = {}

\* the failed call returns None, or False where it answers a bool, raises
\* nothing and leaves the server as it was
ReturnedEmpty ==
    /\ Returned
    /\ server = pre
    /\ IF last.call.op \in BoolOps THEN last.ret.k = "bool" /\ ~last.ret.v
       ELSE last.ret.k = "none"

\* an element of last.call.ids is a string that is not convertible
UnconvertibleId == \E n \in 1..Len(last.call.ids) :
    last.call.ids[n].t = "str" /\ last.call.ids[n].n \notin Oids

CollectionAnswer(skip) ==
    LET c == last.call.c
        d == last.call.d
        found == IF d = None THEN FirstHolding(pre, c, skip)
                 ELSE IF <<d, c>> \in DOMAIN pre THEN d ELSE None
    IN  /\ Returned
        /\ IF found = None THEN last.ret.k = "none"
           ELSE last.ret.k = "coll" /\ last.ret.v = Coll(found, c)

C6_MatchEntry ==
    Called("match_entry") =>
        /\ Returned
        /\ server = pre
        /\ IF Target.k = "none" THEN last.ret.k = "none"
           ELSE /\ last.ret.k = "docs"
                /\ last.ret.v = {doc \in pre[TargetNs] :
                      \A k \in Keys : last.call.f[k] # Absent => doc.f[k] = last.call.f[k]}

\* the documents a find(q) returns for a query q that holds an "_id" $in filter
FindIn(docs, q) ==
    {doc \in docs : \E n \in 1..Len(q["_id"].in[1]) : q["_id"].in[1][n] = doc._id}

\* C7 (as claimed): query_get_entries_by_ids(ids), called without a query as
\* the test does, returns {"_id": {"$in": [...]}} with every identifier
\* converted, in order, so that a find with it returns the documents whose
\* _id is in ids.
C7_QueryByIdsWithoutQuery ==
    (Called("query_get_entries_by_ids") /\ last.call.query.k = "none"
        /\ \A n \in 1..Len(last.call.ids) :
              last.call.ids[n] \in OidIds \/ (last.call.ids[n].t = "str" /\ last.call.ids[n].n \in Oids))
    => /\ Returned
       /\ last.ret.k = "query"
       /\ last.ret.v["_id"].kind = "ops"
       /\ last.ret.v["_id"].in = <<[n \in 1..Len(last.call.ids) |-> Oid(last.call.ids[n].n)]>>
       /\ \A ns \in DOMAIN server :
             FindIn(server[ns], last.ret.v) =
                {doc \in server[ns] : \E n \in 1..Len(last.call.ids) :
                    doc._id = Oid(last.call.ids[n].n)}

\* C8 (as claimed): create_or_update_entry(data, c, d) returns the identifier
\* of the entry created or updated, never None, in all three cases: insert,
\* update of an existing document, upsert.
C8_ReturnsIdentifier ==
    (Called("create_or_update_entry") /\ Returned) =>
        /\ last.ret.k = "pair"
        /\ last.ret.v.id # NoId
        /\ last.call.id # NoId => last.ret.v.id = last.call.id
        /\ \E doc \in After : doc._id = last.ret.v.id
        /\ last.call.id = NoId => \A doc \in Before : doc._id # last.ret.v.id

\* C9: create_or_update_entry(data, c, d) with _id = i in data leaves exactly
\* one document with _id i, carrying every field of data and keeping the
\* other fields of a document that existed; without _id it adds exactly one
\* document.  All other documents are unchanged and the count grows by one
\* unless a document with _id i existed.
C9_CreateOrUpdateEffect ==
    (Called("create_or_update_entry") /\ Returned) =>
        LET i == last.call.id
            ns == <<last.call.d, last.call.c>>
            old == {doc \in Before : doc._id = i}
            new == After \ Before
        IN  /\ OthersUnchanged(ns)
            /\ ns \in DOMAIN server
            /\ IF i # NoId
               THEN /\ Cardinality({doc \in After : doc._id = i}) = 1
                    /\ \A doc \in After : doc._id = i =>
                          /\ \A k \in Keys : last.call.f[k] # Absent => doc.f[k] = last.call.f[k]
                          /\ \A o \in old : \A k \in Keys :
                                last.call.f[k] = Absent => doc.f[k] = o.f[k]
                    /\ {doc \in After : doc._id # i} = {doc \in Before : doc._id # i}
                    /\ Cardinality(After) = Cardinality(Before) + (IF old = {} THEN 1 ELSE 0)
               ELSE /\ Before \subseteq After
                    /\ Cardinality(new) = 1
                    /\ Cardinality(After) = Cardinality(Before) + 1
                    /\ \A doc \in new : doc.f = last.call.f /\ doc._id \in OidIds

\* an update that changes one field of an existing document and keeps
\* another, beside a second document
C9_Witness ==
    /\ Called("create_or_update_entry") /\ Returned
    /\ Cardinality(Before) = 2
    /\ \E o \in Before :
          /\ o._id = last.call.id
          /\ \E k \in Keys : last.call.f[k] = Absent /\ o.f[k] # Absent
          /\ \E k \in Keys : last.call.f[k] # Absent /\ o.f[k] # Absent /\ o.f[k] # last.call.f[k]

\* what C10 says of a create_entry call that returned
CreateEntryEffect ==
    LET ns == <<last.call.d, last.call.c>>
        new == After \ Before
    IN  /\ Returned
        /\ last.ret.k = "pair"
        /\ last.ret.v.id # NoId
        /\ \A doc \in Before : doc._id # last.ret.v.id
        /\ After = Before \cup {Doc(last.ret.v.id, last.call.f)}
        /\ Cardinality(After) = Cardinality(Before) + 1
        /\ OthersUnchanged(ns)
        /\ get_database_by_name(server, last.call.d).k = "db"
        /\ get_database_by_name(server, last.call.d).v = last.call.d
        /\ collection_exists(server, last.call.c, last.call.d)
        /\ get_collection_by_name(server, last.call.c, last.call.d).k = "coll"
        /\ get_collection_by_name(server, last.call.c, last.call.d).v.name = last.call.c

C12_BothFormsOfIdentifier ==
    Called("get_entry_by_id") =>
        LET id == last.call.id
            c == last.call.c
            d == last.call.d
        IN  /\ server = pre
            /\ id.t = "str" /\ id.n \in Oids =>
                  LET other == get_entry_by_id(pre, Oid(id.n), c, d)
                  IN  /\ Returned /\ other.exc = ""
                      /\ last.ret.k = other.ret.k
                      /\ last.ret.k = "doc" => last.ret.v = other.ret.v /\ last.ret.v._id = Oid(id.n)
            /\ id.t = "oid" =>
                  LET other == get_entry_by_id(pre, Str(id.n), c, d)
                  IN  /\ Returned /\ other.exc = ""
                      /\ last.ret.k = other.ret.k
                      /\ last.ret.k = "doc" => last.ret.v = other.ret.v
            /\ id.t = "str" /\ id.n \notin Oids =>
                  /\ ReturnedNone
                  /\ get_entry_by_id_finds(pre, id, c, d) = 0

\* a lookup by the string encoding that finds the document, in a collection
\* that also holds a document whose _id is that string
C12_Witness ==
    /\ Called("get_entry_by_id") /\ last.call.id = Str(1)
    /\ last.ret.k = "doc" /\ last.ret.v._id = Oid(1)
    /\ \E o \in pre[TargetNs] : o._id = Str(1)

\* the lookups of Client
ReadOps ==
    {"database_exists", "get_database_by_name", "collection_exists",
     "get_collection_by_name", "get_entry_by_id", "match_entry",
     "get_most_recent_entry", "get_all_ids_in_collection"}

\* the outcome of the last call, a lookup, made on server state s
ReadOutcome(s) ==
    LET c == last.call.c
        d == last.call.d
    IN  CASE Called("database_exists") -> Return(RBool(database_exists(s, d)), s)
          [] Called("get_database_by_name") -> Return(get_database_by_name(s, d), s)
          [] Called("collection_exists") -> Return(RBool(collection_exists(s, c, d)), s)
          [] Called("get_collection_by_name") -> Return(get_collection_by_name(s, c, d), s)
          [] Called("get_entry_by_id") -> get_entry_by_id(s, last.call.id, c, d)
          [] Called("match_entry") -> match_entry(s, d, c, last.call.f)
          [] Called("get_most_recent_entry") -> get_most_recent_entry(s, c, d)
          [] Called("get_all_ids_in_collection") -> get_all_ids_in_collection(s, Coll(d, c))

\* C13: the lookups never change the server state (no database, collection
\* or document is created), and the client keeps no state: the same call made
\* again on the server state it left has the same outcome.
C13_ReadOnlyLookups ==
    last.call.op \in ReadOps =>
        /\ server = pre
        /\ LET again == ReadOutcome(server)
           IN  /\ again.server = server
               /\ again.exc = last.exc
               /\ again.ret.k = last.ret.k
               /\ again.ret.v = last.ret.v

\* a lookup that returns the most recent of the documents of a collection
C13_Witness ==
    /\ Called("get_most_recent_entry")
    /\ last.ret.k = "doc"
    /\ last.ret.v \in AllDocs(server)

\* C14 (as claimed): collection_exists(c, d) is True if and only if
\* get_collection_by_name(c, d) returns a collection, for every c, every d
\* and d omitted, in every server state.
C14_ExistsIffFound ==
    /\ Called("collection_exists") =>
          (last.ret.v <=> get_collection_by_name(pre, last.call.c, last.call.d).k = "coll")
    /\ Called("get_collection_by_name") =>
          (last.ret.k = "coll" <=> collection_exists(pre, last.call.c, last.call.d))

\* the document get_entry_by_id finds, before the last call, for its arguments
Found == get_entry_by_id(pre, last.call.id, last.call.c, last.call.d).ret

\* C15 (as claimed): whenever get_entry_by_id(s, c, d) finds a document for an
\* identifier string s, delete_entry_by_id(s, c, d) deletes that document and
\* returns True, and update_entry(s, data, c, d) updates that document.
C15_StringIdsTreatedAlike ==
    (last.call.id.t = "str" /\ Found.k = "doc") =>
        /\ Called("delete_entry_by_id") =>
              /\ ReturnedBool(TRUE)
              /\ \A doc \in AllDocs(server) : doc._id # Found.v._id
        /\ Called("update_entry") =>
              /\ Returned
              /\ \E doc \in After :
                    /\ doc._id = Found.v._id
                    /\ doc.f = SetFields(Found.v.f, last.call.f)

\* C16: update_entry(_id, data, c, d) sets exactly the fields named in data on
\* the document with that _id and leaves its other fields and all other
\* documents unchanged; when no document has that _id, or the database or the
\* collection does not exist, it changes nothing.
C16_UpdateEntryEffect ==
    Called("update_entry") =>
        LET ns == <<last.call.d, last.call.c>>
            old == {doc \in Before : doc._id = last.call.id}
        IN  /\ Returned
            /\ last.ret.k = "none"
            /\ DOMAIN server = DOMAIN pre
            /\ OthersUnchanged(ns)
            /\ Cardinality(After) = Cardinality(Before)
            /\ IF old = {} THEN server = pre
               ELSE \E o \in old :
                       After = (Before \ {o}) \cup
                           {Doc(o._id, [k \in Keys |-> IF last.call.f[k] # Absent
                                                      THEN last.call.f[k] ELSE o.f[k]])}

\* an update that changes a field of one of two documents and keeps its other field
C16_Witness ==
    /\ Called("update_entry")
    /\ Cardinality(Before) = 2
    /\ server # pre
    /\ \E o \in Before : \E k \in Keys :
          o._id = last.call.id /\ o.f[k] # Absent /\ last.call.f[k] = Absent

-----------------------------------------------------------------------------
(* Properties of the query builders.  Each is about the last builder call   *)
(* built, the heap before it (built.before) and after it (heap).            *)

Builds(op) == built.op = op
\* the dictionary the caller passed, before and after the call
GivenBefore == built.before[built.query]
GivenAfter == heap[built.query]

\* C17 (as claimed): query_get_entries_by_ids raises TypeError when any
\* element of ids is neither a string nor an ObjectId; then, as when a string
\* element is not convertible, the query passed in is left exactly as it was.
C17_TypeErrorLeavesQuery ==
    Builds("query_get_entries_by_ids") =>
        /\ (\E n \in 1..Len(built.ids) : built.ids[n].t \notin {"str", "oid"})
              => built.exc = "TypeError"
        /\ (\E n \in 1..Len(built.ids) :
                \/ built.ids[n].t \notin {"str", "oid"}
                \/ built.ids[n].t = "str" /\ built.ids[n].n \notin Oids)
              => built.exc # "" /\ heap = built.before

\* the dictionary the builder starts from: the caller's, or {} for None
Start == IF built.query = 0 THEN EmptyQuery ELSE GivenBefore

\* C18 (as claimed): query_get_entries_where_key_exists / _not_exists return
\* the updated query in which key carries $exists = True / False, for every
\* query, one where key holds an equality value included; operators already
\* present for key are preserved and an earlier $exists is replaced.
C18_ExistsOnEveryQuery ==
    built.op \in {"query_get_entries_where_key_exists",
                  "query_get_entries_where_key_not_exists"} =>
        /\ built.exc = ""
        /\ built.ref \in 1..Len(heap)
        /\ heap[built.ref][built.key].kind = "ops"
        /\ heap[built.ref][built.key].exists =
              <<built.op = "query_get_entries_where_key_exists">>
        /\ Start[built.key].kind = "ops" =>
              /\ heap[built.ref][built.key].gte = Start[built.key].gte
              /\ heap[built.ref][built.key].lte = Start[built.key].lte
              /\ heap[built.ref][built.key].in = Start[built.key].in

\* C19: every builder changes only the entry of its own key ("_id" for the
\* ids builder) and no other dictionary; given a query it updates that
\* dictionary in place and returns it; given none, a key-based builder
\* returns a new dictionary, which is none of the dictionaries that exist.
C19_BuilderFrame ==
    built.op # "" =>
        /\ \A r \in 1..Len(built.before) : r # built.query => heap[r] = built.before[r]
        /\ IF built.query # 0
           THEN /\ Len(heap) = Len(built.before)
                /\ \A k \in QKeys \ {built.key} : GivenAfter[k] = GivenBefore[k]
                /\ built.exc = "" => built.ref = built.query
                /\ built.exc # "" => heap = built.before
           ELSE IF built.exc = ""
           THEN /\ built.op # "query_get_entries_by_ids"
                /\ built.ref \notin 1..Len(built.before)
                /\ heap = Append(built.before, heap[built.ref])
                /\ \A k \in QKeys \ {built.key} : heap[built.ref][k] = NoCond
           ELSE heap = built.before

\* a builder that changes, in place, a dictionary with a condition for
\* another key, beside another dictionary
C19_Witness ==
    /\ built.op # "" /\ built.query # 0 /\ built.exc = ""
    /\ Len(heap) > 1
    /\ GivenAfter # GivenBefore
    /\ \E k \in QKeys \ {built.key} : GivenBefore[k].kind # "none"

\* the calls of the builders: the builder and its arguments but the query
BuilderCall(op, key, val, range, ids) ==
    [op |-> op, key |-> key, val |-> val, range |-> range, ids |-> ids]

ValueCalls ==
    {BuilderCall("query_get_entries_with_value", a[1], <<a[2]>>, << >>, << >>) :
        a \in ValueArgs}

RangeCalls ==
    {BuilderCall("query_get_entries_with_value_range", a[1], << >>, a[2], << >>) :
        a \in RangeArgs}

ExistsCalls ==
    {BuilderCall(op, key, << >>, << >>, << >>) :
        op \in {"query_get_entries_where_key_exists",
                "query_get_entries_where_key_not_exists"}, key \in ExistsKeys}

IdsCalls ==
    {BuilderCall("query_get_entries_by_ids", "_id", << >>, << >>, ids) : ids \in IdsArgs}

BuilderCalls == ValueCalls \cup RangeCalls \cup ExistsCalls \cup IdsCalls

\* the outcome of call c on a query with the contents q
Applied(c, q) ==
    CASE c.op = "query_get_entries_with_value" ->
             query_get_entries_with_value(<<q>>, c.key, c.val[1], 1)
      [] c.op = "query_get_entries_with_value_range" ->
             query_get_entries_with_value_range(<<q>>, c.key, c.range, 1)
      [] c.op = "query_get_entries_where_key_exists" ->
             query_get_entries_where_key_exists(<<q>>, c.key, 1)
      [] c.op = "query_get_entries_where_key_not_exists" ->
             query_get_entries_where_key_not_exists(<<q>>, c.key, 1)
      [] c.op = "query_get_entries_by_ids" ->
             query_get_entries_by_ids_InPlace(<<q>>, c.ids, 1)

\* the contents after call c, and after call c then call d
Then1(c, q) == Applied(c, q).heap[1]
Then2(c, d, q) == Then1(d, Then1(c, q))

Returns1(c, q) == Applied(c, q).exc = ""
Returns2(c, d, q) == Returns1(c, q) /\ Returns1(d, Then1(c, q))

\* C20: on every query the builders have built, two calls for different
\* keys give the same query in either order, a call made twice gives the
\* query of the call made once, with_value leaves query[key] = value, the
\* range builder leaves exactly {$gte: value[0], $lte: value[1]}, a range
\* followed by an existence check holds both and an existence check followed
\* by a range holds only the range.
C20_Composition ==
    \A r \in 1..Len(heap) :
        LET q == heap[r] IN
        /\ \A c, d \in BuilderCalls :
              c.key # d.key /\ Returns2(c, d, q) =>
                  /\ Returns2(d, c, q)
                  /\ Then2(d, c, q) = Then2(c, d, q)
        /\ \A c \in BuilderCalls :
              Returns1(c, q) => /\ Returns2(c, c, q)
                                /\ Then2(c, c, q) = Then1(c, q)
        /\ \A c \in ValueCalls :
              /\ Returns1(c, q)
              /\ Then1(c, q)[c.key] = [NoCond EXCEPT !.kind = "value", !.val = c.val]
        /\ \A c \in RangeCalls :
              /\ Returns1(c, q)
              /\ Then1(c, q)[c.key] =
                    [NoCond EXCEPT !.kind = "ops", !.gte = <<c.range[1]>>,
                                   !.lte = <<c.range[2]>>]
              /\ \A e \in ExistsCalls :
                    e.key = c.key =>
                        /\ Returns2(c, e, q)
                        /\ Then2(c, e, q)[c.key] =
                              [Then1(c, q)[c.key] EXCEPT !.exists =
                                  <<e.op = "query_get_entries_where_key_exists">>]
                        /\ Returns1(e, q) => /\ Returns2(e, c, q)
                                             /\ Then2(e, c, q) = Then1(c, q)

\* an existence check has been added to a range, in a query that holds a
\* condition for another key too
C20_Witness ==
    /\ built.op = "query_get_entries_where_key_exists"
    /\ built.query # 0 /\ built.exc = ""
    /\ GivenBefore[built.key].gte # << >>
    /\ GivenBefore[built.key].exists = << >>
    /\ GivenAfter[built.key].gte # << >>
    /\ GivenAfter[built.key].exists = <<TRUE>>
    /\ \E k \in QKeys \ {built.key} : GivenAfter[k].kind # "none"

====
